---- MODULE Spec2Model ----
(***************************************************************************)
(* Huffman text codec of src/lib/huffman.ts (class HuffmanCompressor).     *)
(*                                                                         *)
(* Strings are sequences of character codes (UTF-16 code units; every      *)
(* symbol used here is in the Basic Multilingual Plane, so one symbol is   *)
(* one code unit).  Bit strings are strings over the characters "0" (48)   *)
(* and "1" (49), as in the source.  A Map is the sequence of its entries   *)
(* <<key, value>> in insertion order.                                      *)
(***************************************************************************)
EXTENDS Integers, Sequences, FiniteSets

\* ------------------------------------------------------------------ bounds
\* Longest input text given to compress.
MaxLen == 4

\* Longest text whose payload is damaged before decompress, and the most
\* characters cut from the end of a payload.
MaxCorruptLen == 2
MaxCut == 4

\* Longest bit string of which every value is packed and unpacked.
MaxBits == 9

\* ------------------------------------------------------- characters, texts
\* "a", "b", "c" and the euro sign U+20AC (outside Latin-1).
Alphabet == {97, 98, 99, 8364}

\* "abracadabra", the worked example.
Abracadabra == <<97, 98, 114, 97, 99, 97, 100, 97, 98, 114, 97>>

\* The texts given to compress: every text up to MaxLen, and the example.
Texts == UNION {[1..n -> Alphabet] : n \in 0..MaxLen} \cup {Abracadabra}

Zero == 48
One == 49

\* The value null of a `string | null` field (HuffmanNode.char).
NullChar == -1

\* The value null of a `HuffmanNode | null` field.
Null == [null |-> TRUE]

\* new HuffmanNode(char, frequency): both children null.
HuffmanNode(char, frequency) ==
  [char |-> char, frequency |-> frequency, left |-> Null, right |-> Null]

\* ------------------------------------------------------------------- Map
RECURSIVE MapHas(_, _)
MapHas(m, k) ==
  IF m = <<>> THEN FALSE
  ELSE IF Head(m)[1] = k THEN TRUE ELSE MapHas(Tail(m), k)

\* Map.get, with `dflt` for undefined.
RECURSIVE MapGet(_, _, _)
MapGet(m, k, dflt) ==
  IF m = <<>> THEN dflt
  ELSE IF Head(m)[1] = k THEN Head(m)[2] ELSE MapGet(Tail(m), k, dflt)

\* Map.set: an existing key keeps its position, a new key is appended.
MapSet(m, k, v) ==
  IF MapHas(m, k)
  THEN [i \in 1..Len(m) |-> IF m[i][1] = k THEN <<k, v>> ELSE m[i]]
  ELSE Append(m, <<k, v>>)

\* ------------------------------------------------------------ frequencies
\* compress, the first loop: frequencies.set(char, (frequencies.get(char) || 0) + 1)
RECURSIVE CountFrequencies(_, _)
CountFrequencies(text, frequencies) ==
  IF text = <<>> THEN frequencies
  ELSE CountFrequencies(Tail(text),
         MapSet(frequencies, Head(text), MapGet(frequencies, Head(text), 0) + 1))

Frequencies(text) == CountFrequencies(text, <<>>)

\* ------------------------------------------------------- buildHuffmanTree
\* The leaves pushed on the heap, in the Map's iteration order.
LeafNodes(frequencies) ==
  [i \in 1..Len(frequencies) |-> HuffmanNode(frequencies[i][1], frequencies[i][2])]

\* Array.prototype.sort is stable: an element goes after every element
\* already placed that does not compare greater.
RECURSIVE StableInsert(_, _)
StableInsert(sorted, node) ==
  IF sorted = <<>> THEN <<node>>
  ELSE IF Head(sorted).frequency - node.frequency > 0
       THEN <<node>> \o sorted
       ELSE <<Head(sorted)>> \o StableInsert(Tail(sorted), node)

RECURSIVE SortInto(_, _)
SortInto(sorted, rest) ==
  IF rest = <<>> THEN sorted
  ELSE SortInto(StableInsert(sorted, Head(rest)), Tail(rest))

\* Mutant of SortHeap: the leaves are left in the Map's order.
SortHeapSkipped(heap) == heap

\* heap.sort((a, b) => a.frequency - b.frequency)
SortHeap(heap) == SortInto(<<>>, heap)

\* The heap when the while loop is first reached.
InitialHeap(frequencies) == SortHeap(LeafNodes(frequencies))

\* The merged internal node of one iteration.
MergeNodes(left, right) ==
  [char |-> NullChar, frequency |-> left.frequency + right.frequency,
   left |-> left, right |-> right]

\* Mutant of InsertMerged: the merged node is always put first.
InsertMergedAtFront(heap, merged) == <<merged>> \o heap

\* Mutant of InsertMerged: the comparison is < instead of <=.
RECURSIVE InsertMergedAfterEquals(_, _)
InsertMergedAfterEquals(heap, merged) ==
  IF heap = <<>> THEN <<merged>>
  ELSE IF merged.frequency < Head(heap).frequency
       THEN <<merged>> \o heap
       ELSE <<Head(heap)>> \o InsertMergedAfterEquals(Tail(heap), merged)

\* The reinsertion loop: splice before the first heap[i] with
\* merged.frequency <= heap[i].frequency, push when there is none.
RECURSIVE InsertMerged(_, _)
InsertMerged(heap, merged) ==
  IF heap = <<>> THEN <<merged>>
  ELSE IF merged.frequency <= Head(heap).frequency
       THEN <<merged>> \o heap
       ELSE <<Head(heap)>> \o InsertMerged(Tail(heap), merged)

\* One iteration of the while loop (heap.length > 1).
MergeStep(heap) ==
  InsertMerged(SubSeq(heap, 3, Len(heap)), MergeNodes(heap[1], heap[2]))

\* return heap.length > 0 ? heap[0] : null
HeapRoot(heap) == IF Len(heap) > 0 THEN heap[1] ELSE Null

\* ---------------------------------------------------------- generateCodes
\* Mutant of IsSingleLeaf: the special case is never taken.
IsSingleLeafNever(root) == FALSE

\* if (!root.left && !root.right && root.char !== null)
IsSingleLeaf(root) ==
  root.left = Null /\ root.right = Null /\ root.char # NullChar

\* Mutant of Traverse: the right child gets the code of its parent.
RECURSIVE TraverseRightUnmarked(_, _, _)
TraverseRightUnmarked(node, code, codes) ==
  IF node.char # NullChar THEN MapSet(codes, node.char, code)
  ELSE LET afterLeft == IF node.left # Null
                        THEN TraverseRightUnmarked(node.left, Append(code, Zero), codes)
                        ELSE codes
       IN  IF node.right # Null
           THEN TraverseRightUnmarked(node.right, code, afterLeft)
           ELSE afterLeft

\* traverse(node, code): the Map after the call.
RECURSIVE Traverse(_, _, _)
Traverse(node, code, codes) ==
  IF node.char # NullChar THEN MapSet(codes, node.char, code)
  ELSE LET afterLeft == IF node.left # Null
                        THEN Traverse(node.left, Append(code, Zero), codes)
                        ELSE codes
       IN  IF node.right # Null
           THEN Traverse(node.right, Append(code, One), afterLeft)
           ELSE afterLeft

GenerateCodes(root) ==
  IF root = Null THEN <<>>
  ELSE IF IsSingleLeaf(root) THEN <<<<root.char, <<Zero>>>>>>
  ELSE Traverse(root, <<>>, <<>>)

\* compress, the second loop: compressedBits += codes.get(char) || ""
RECURSIVE EncodeText(_, _)
EncodeText(text, codes) ==
  IF text = <<>> THEN <<>>
  ELSE MapGet(codes, Head(text), <<>>) \o EncodeText(Tail(text), codes)

\* ------------------------------------------------------------- JS values
\* The values a property of a plain object can hold; each kind has its own
\* fields.  A number is sign, integer part and decimal fraction digits (as
\* character codes, no trailing zero); NaN is its own kind.
Undefined == [t |-> "undefined"]
JNull == [t |-> "null"]
JNaN == [t |-> "nan"]
JBool(b) == [t |-> "boolean", b |-> b]
JStr(s) == [t |-> "string", s |-> s]
JNum(neg, int, frac) == [t |-> "number", neg |-> neg, int |-> int, frac |-> frac]
JInt(n) == IF n < 0 THEN JNum(TRUE, 0 - n, <<>>) ELSE JNum(FALSE, n, <<>>)
JObj(members) == [t |-> "object", members |-> members]
JArr(elems) == [t |-> "array", elems |-> elems]

\* Integer parts are kept up to this value; a larger one is kept as this
\* value (every string of the model is far shorter).
IntCap == 100000000

\* "compressed"
KeyCompressed == <<99, 111, 109, 112, 114, 101, 115, 115, 101, 100>>
\* "tree"
KeyTree == <<116, 114, 101, 101>>
\* "originalSize"
KeyOriginalSize == <<111, 114, 105, 103, 105, 110, 97, 108, 83, 105, 122, 101>>
\* "compressedSize"
KeyCompressedSize == <<99, 111, 109, 112, 114, 101, 115, 115, 101, 100, 83, 105, 122, 101>>
\* "compressionRatio"
KeyCompressionRatio == <<99, 111, 109, 112, 114, 101, 115, 115, 105, 111, 110, 82, 97, 116, 105, 111>>
\* "bitsLength"
KeyBitsLength == <<98, 105, 116, 115, 76, 101, 110, 103, 116, 104>>
\* "char"
KeyChar == <<99, 104, 97, 114>>
\* "frequency"
KeyFrequency == <<102, 114, 101, 113, 117, 101, 110, 99, 121>>
\* "left"
KeyLeft == <<108, 101, 102, 116>>
\* "right"
KeyRight == <<114, 105, 103, 104, 116>>
\* "null"
StrNull == <<110, 117, 108, 108>>
\* "true"
StrTrue == <<116, 114, 117, 101>>
\* "false"
StrFalse == <<102, 97, 108, 115, 101>>
\* "undefined"
StrUndefined == <<117, 110, 100, 101, 102, 105, 110, 101, 100>>
\* "[object Object]"
StrObject == <<91, 111, 98, 106, 101, 99, 116, 32, 79, 98, 106, 101, 99, 116, 93>>

\* data.key: undefined for a missing key and for a value with no such
\* property; reading a property of null or undefined throws (Threw).
Threw == [t |-> "threw"]

GetProp(v, key) ==
  IF v = JNull \/ v = Undefined THEN Threw
  ELSE IF v.t = "object" THEN MapGet(v.members, key, Undefined)
  ELSE Undefined

\* !v
Falsy(v) ==
  \/ v = Undefined \/ v = JNull \/ v = JNaN
  \/ (v.t = "boolean" /\ ~v.b)
  \/ (v.t = "string" /\ v.s = <<>>)
  \/ (v.t = "number" /\ v.int = 0 /\ v.frac = <<>>)

\* ---------------------------------------------- serializeTree, deserializeTree
\* A symbol is a one-character string; char is that string or null.
CharToJs(char) == IF char = NullChar THEN JNull ELSE JStr(<<char>>)

JsToChar(v) == IF v.t = "string" /\ Len(v.s) = 1 THEN v.s[1] ELSE NullChar

JsToInt(v) == IF v.t = "number" THEN (IF v.neg THEN 0 - v.int ELSE v.int) ELSE 0

RECURSIVE SerializeTree(_)
SerializeTree(node) ==
  IF node = Null THEN JNull
  ELSE JObj(<< <<KeyChar, CharToJs(node.char)>>,
               <<KeyFrequency, JInt(node.frequency)>>,
               <<KeyLeft, SerializeTree(node.left)>>,
               <<KeyRight, SerializeTree(node.right)>> >>)

\* `data` is null, undefined or a tree serializeTree made: char is a
\* one-character string or null and frequency a whole number.
RECURSIVE DeserializeTree(_)
DeserializeTree(data) ==
  IF Falsy(data) THEN Null
  ELSE [char |-> JsToChar(GetProp(data, KeyChar)),
        frequency |-> JsToInt(GetProp(data, KeyFrequency)),
        left |-> DeserializeTree(GetProp(data, KeyLeft)),
        right |-> DeserializeTree(GetProp(data, KeyRight))]

\* ------------------------------------------------------------ btoa, atob
Failed == [ok |-> FALSE]
Ok(v) == [ok |-> TRUE, v |-> v]

Equals == 61

\* The base64 character of a 6-bit value.
B64Char(i) ==
  IF i < 26 THEN 65 + i
  ELSE IF i < 52 THEN 97 + (i - 26)
  ELSE IF i < 62 THEN 48 + (i - 52)
  ELSE IF i = 62 THEN 43 ELSE 47

\* The 6-bit value of a base64 character, -1 for any other character.
B64Index(c) ==
  IF c >= 65 /\ c <= 90 THEN c - 65
  ELSE IF c >= 97 /\ c <= 122 THEN c - 97 + 26
  ELSE IF c >= 48 /\ c <= 57 THEN c - 48 + 52
  ELSE IF c = 43 THEN 62
  ELSE IF c = 47 THEN 63 ELSE -1

Pow64(j) == IF j = 0 THEN 1 ELSE IF j = 1 THEN 64 ELSE IF j = 2 THEN 4096 ELSE 262144

Pow256(j) == IF j = 0 THEN 1 ELSE IF j = 1 THEN 256 ELSE 65536

\* btoa(s): throws InvalidCharacterError when a character is above U+00FF.
Btoa(s) ==
  IF \E i \in 1..Len(s) : s[i] > 255 THEN Failed
  ELSE LET n == Len(s)
           At(i) == IF i <= n THEN s[i] ELSE 0
           Group(g) == At(3*g + 1) * 65536 + At(3*g + 2) * 256 + At(3*g + 3)
           Out(k) ==
             LET g == (k - 1) \div 4
                 j == (k - 1) % 4
             IN  IF j = 2 /\ 3*g + 2 > n THEN Equals
                 ELSE IF j = 3 /\ 3*g + 3 > n THEN Equals
                 ELSE B64Char((Group(g) \div Pow64(3 - j)) % 64)
       IN  Ok([k \in 1..(4 * ((n + 2) \div 3)) |-> Out(k)])

IsAsciiWhitespace(c) == c \in {9, 10, 12, 13, 32}

\* atob(s), the forgiving-base64 decode: ASCII whitespace is removed, one or
\* two trailing "=" are removed when the length is a multiple of 4, a length
\* of 1 modulo 4 or any other character throws InvalidCharacterError, and
\* the bits of an incomplete last byte are dropped.
Atob(s) ==
  LET stripped == SelectSeq(s, LAMBDA c : ~IsAsciiWhitespace(c))
      m == Len(stripped)
      pad == IF m % 4 = 0 /\ m > 0 /\ stripped[m] = Equals
             THEN (IF stripped[m - 1] = Equals THEN 2 ELSE 1)
             ELSE 0
      data == SubSeq(stripped, 1, m - pad)
      n == Len(data)
      At(i) == IF i <= n THEN B64Index(data[i]) ELSE 0
      Group(g) == At(4*g + 1) * 262144 + At(4*g + 2) * 4096
                    + At(4*g + 3) * 64 + At(4*g + 4)
      bytes == 3 * (n \div 4) + (IF n % 4 = 2 THEN 1 ELSE IF n % 4 = 3 THEN 2 ELSE 0)
  IN  IF n % 4 = 1 THEN Failed
      ELSE IF \E i \in 1..n : B64Index(data[i]) < 0 THEN Failed
      ELSE Ok([k \in 1..bytes |->
                 (Group((k - 1) \div 3) \div Pow256(2 - ((k - 1) % 3))) % 256])

\* ------------------------------------------- bitsToBase64, base64ToBits
\* Number.parseInt(byte, 2) of eight characters "0"/"1".
RECURSIVE ParseBinary(_, _)
ParseBinary(byte, acc) ==
  IF byte = <<>> THEN acc
  ELSE ParseBinary(Tail(byte), 2 * acc + (Head(byte) - Zero))

Repeat(s, n) == [i \in 1..(n * Len(s)) |-> s[((i - 1) % Len(s)) + 1]]

\* Mutant of PadBits: a bit string whose length is a multiple of 8 gets a
\* whole byte of padding.
PadBitsWholeByte(bits) == bits \o Repeat(<<Zero>>, 8 - (Len(bits) % 8))

\* bits + "0".repeat((8 - (bits.length % 8)) % 8)
PadBits(bits) == bits \o Repeat(<<Zero>>, (8 - (Len(bits) % 8)) % 8)

\* The characters String.fromCharCode makes of the padded bits.
PackBytes(paddedBits) ==
  [k \in 1..(Len(paddedBits) \div 8) |->
     ParseBinary(SubSeq(paddedBits, 8*(k - 1) + 1, 8*k), 0)]

BitsToBase64(bits) == Btoa(PackBytes(PadBits(bits)))

\* charCodeAt(i).toString(2).padStart(8, "0") of every character.
UnpackBits(decoded) ==
  [i \in 1..(8 * Len(decoded)) |->
     LET byte == decoded[((i - 1) \div 8) + 1]
         j == (i - 1) % 8
     IN  Zero + ((byte \div (2 ^ (7 - j))) % 2)]

\* Mutant of SubstringEnd: the padding is not cut off.
SubstringEndKeepsPadding(len, end) == len

\* bits.substring(0, end): undefined is the length, NaN and negatives are 0,
\* a fraction is dropped, end is clamped to the length.
SubstringEnd(len, end) ==
  IF end = Undefined THEN len
  ELSE IF end.t = "number"
       THEN (IF end.neg THEN 0 ELSE IF end.int > len THEN len ELSE end.int)
  ELSE IF end.t = "boolean" THEN (IF end.b /\ len >= 1 THEN 1 ELSE 0)
  ELSE 0

\* -------------------------------------------------------- Number to String
RECURSIVE IntToString(_)
IntToString(n) ==
  IF n < 10 THEN <<Zero + n>>
  ELSE Append(IntToString(n \div 10), Zero + (n % 10))

RECURSIVE StripTrailingZeros(_)
StripTrailingZeros(digits) ==
  IF digits # <<>> /\ digits[Len(digits)] = Zero
  THEN StripTrailingZeros(SubSeq(digits, 1, Len(digits) - 1))
  ELSE digits

\* Number::toString of a number that is not NaN.
NumberToString(v) ==
  (IF v.neg /\ (v.int # 0 \/ v.frac # <<>>) THEN <<45>> ELSE <<>>)
    \o IntToString(v.int)
    \o (IF v.frac = <<>> THEN <<>> ELSE <<46>> \o v.frac)

\* String(v), the conversion atob applies to its argument.
RECURSIVE JsToString(_)
JsToString(v) ==
  IF v = Undefined THEN StrUndefined
  ELSE IF v = JNull THEN StrNull
  ELSE IF v = JNaN THEN <<78, 97, 78>>
  ELSE IF v.t = "boolean" THEN (IF v.b THEN StrTrue ELSE StrFalse)
  ELSE IF v.t = "string" THEN v.s
  ELSE IF v.t = "number" THEN NumberToString(v)
  ELSE IF v.t = "array"
       THEN (IF v.elems = <<>> THEN <<>>
             ELSE LET first == IF Head(v.elems) \in {Undefined, JNull}
                               THEN <<>> ELSE JsToString(Head(v.elems))
                  IN  IF Len(v.elems) = 1 THEN first
                      ELSE first \o <<44>> \o JsToString(JArr(Tail(v.elems))))
  ELSE StrObject

\* ------------------------------------------------------ compressionRatio
\* The decimal digits of r/q after the point, to `sig` more significant
\* digits; `started` once a significant digit has been written.  The last
\* element tells whether the digits that follow round the last one up.
RECURSIVE FractionDigits(_, _, _, _)
FractionDigits(r, q, sig, started) ==
  IF r = 0 THEN <<<<>>, FALSE>>
  ELSE IF sig = 0 THEN <<<<>>, (10 * r) \div q >= 5>>
  ELSE LET d == (10 * r) \div q
           sig2 == IF started \/ d > 0 THEN sig - 1 ELSE sig
           rest == FractionDigits((10 * r) % q, q, sig2, started \/ d > 0)
       IN  <<<<Zero + d>> \o rest[1], rest[2]>>

\* digits + 1 in the last place: <<carry out of the first place, digits>>.
RECURSIVE Increment(_)
Increment(digits) ==
  IF digits = <<>> THEN <<TRUE, <<>>>>
  ELSE LET last == digits[Len(digits)]
           front == SubSeq(digits, 1, Len(digits) - 1)
       IN  IF last < Zero + 9 THEN <<FALSE, Append(front, last + 1)>>
           ELSE LET up == Increment(front)
                IN  <<up[1], Append(up[2], Zero)>>

\* Significant decimal digits of the text of a double that is not a whole
\* number, as Number::toString writes the quotients of this program.
SignificantDigits == 16

\* ((originalSize - compressedSize) / originalSize) * 100, as the number
\* JSON.stringify writes: the exact quotient when its decimal expansion
\* ends, else rounded to SignificantDigits digits.  (The double's last digit
\* can differ by one from this rounding; no code reads the digits back.)
CompressionRatio(originalSize, compressedSize) ==
  LET p == (originalSize - compressedSize) * 100
      a == IF p < 0 THEN 0 - p ELSE p
      ip == a \div originalSize
      sig == IF ip = 0 THEN SignificantDigits
             ELSE SignificantDigits - Len(IntToString(ip))
      fd == FractionDigits(a % originalSize, originalSize, sig, ip > 0)
      up == IF fd[2] THEN Increment(fd[1]) ELSE <<FALSE, fd[1]>>
  IN  JNum(p < 0, IF up[1] THEN ip + 1 ELSE ip, StripTrailingZeros(up[2]))

\* ---------------------------------------------------------- JSON.stringify
Hex(n) == IF n < 10 THEN Zero + n ELSE 97 + (n - 10)

\* One character of a string, as QuoteJSONString writes it.
EscapeChar(c) ==
  IF c = 34 THEN <<92, 34>>
  ELSE IF c = 92 THEN <<92, 92>>
  ELSE IF c = 8 THEN <<92, 98>>
  ELSE IF c = 9 THEN <<92, 116>>
  ELSE IF c = 10 THEN <<92, 110>>
  ELSE IF c = 12 THEN <<92, 102>>
  ELSE IF c = 13 THEN <<92, 114>>
  ELSE IF c < 32 THEN <<92, 117, Zero, Zero, Hex(c \div 16), Hex(c % 16)>>
  ELSE <<c>>

RECURSIVE EscapeString(_)
EscapeString(s) ==
  IF s = <<>> THEN <<>> ELSE EscapeChar(Head(s)) \o EscapeString(Tail(s))

QuoteJson(s) == <<34>> \o EscapeString(s) \o <<34>>

RECURSIVE JsonStringify(_)
RECURSIVE StringifyMembers(_, _)
RECURSIVE StringifyElems(_, _)

\* The members of an object, a member whose value is undefined left out.
StringifyMembers(members, first) ==
  IF members = <<>> THEN <<>>
  ELSE IF Head(members)[2] = Undefined THEN StringifyMembers(Tail(members), first)
  ELSE (IF first THEN <<>> ELSE <<44>>)
         \o QuoteJson(Head(members)[1]) \o <<58>> \o JsonStringify(Head(members)[2])
         \o StringifyMembers(Tail(members), FALSE)

StringifyElems(elems, first) ==
  IF elems = <<>> THEN <<>>
  ELSE (IF first THEN <<>> ELSE <<44>>)
         \o (IF Head(elems) = Undefined THEN StrNull ELSE JsonStringify(Head(elems)))
         \o StringifyElems(Tail(elems), FALSE)

\* JSON.stringify(v) of a value that is not undefined.
JsonStringify(v) ==
  IF v = JNull \/ v = JNaN THEN StrNull
  ELSE IF v.t = "boolean" THEN (IF v.b THEN StrTrue ELSE StrFalse)
  ELSE IF v.t = "number" THEN NumberToString(v)
  ELSE IF v.t = "string" THEN QuoteJson(v.s)
  ELSE IF v.t = "array" THEN <<91>> \o StringifyElems(v.elems, TRUE) \o <<93>>
  ELSE <<123>> \o StringifyMembers(v.members, TRUE) \o <<125>>

\* -------------------------------------------------------------- JSON.parse
ParseFail == [ok |-> FALSE]
Parsed(v, pos) == [ok |-> TRUE, v |-> v, pos |-> pos]

IsJsonWhitespace(c) == c \in {9, 10, 13, 32}
IsDigit(c) == c >= 48 /\ c <= 57

HexValue(c) ==
  IF IsDigit(c) THEN c - 48
  ELSE IF c >= 97 /\ c <= 102 THEN c - 87
  ELSE IF c >= 65 /\ c <= 70 THEN c - 55 ELSE -1

\* The index of the first character at or after i that is not white space.
RECURSIVE SkipWs(_, _)
SkipWs(s, i) ==
  IF i <= Len(s) /\ IsJsonWhitespace(s[i]) THEN SkipWs(s, i + 1) ELSE i

\* The index after the run of digits that starts at i.
RECURSIVE DigitsEnd(_, _)
DigitsEnd(s, i) == IF i <= Len(s) /\ IsDigit(s[i]) THEN DigitsEnd(s, i + 1) ELSE i

RECURSIVE DigitsToInt(_, _)
DigitsToInt(digits, acc) ==
  IF digits = <<>> THEN acc
  ELSE LET n == 10 * acc + (Head(digits) - Zero)
       IN  DigitsToInt(Tail(digits), IF n > IntCap THEN IntCap ELSE n)

RECURSIVE TimesPowerOfTen(_, _)
TimesPowerOfTen(n, k) ==
  IF k = 0 \/ n = 0 \/ n >= IntCap THEN (IF n > IntCap THEN IntCap ELSE n)
  ELSE TimesPowerOfTen(10 * n, k - 1)

\* A decimal this far below 1 is 0 as a double.
UnderflowDigits == 330

Min(a, b) == IF a < b THEN a ELSE b

\* int.frac times ten to the exponent >= 0: k digits of frac move left.
ScaleUp(neg, int, frac, exponent, k) ==
  JNum(neg,
       TimesPowerOfTen(DigitsToInt(int \o SubSeq(frac, 1, k), 0), exponent - k),
       StripTrailingZeros(SubSeq(frac, k + 1, Len(frac))))

\* int.frac divided by ten to the `down` > 0: k digits of int move right.
ScaleDown(neg, int, frac, down, k) ==
  JNum(neg,
       DigitsToInt(SubSeq(int, 1, Len(int) - k), 0),
       IF down - k > UnderflowDigits THEN <<>>
       ELSE StripTrailingZeros(Repeat(<<Zero>>, down - k)
                                 \o SubSeq(int, Len(int) - k + 1, Len(int)) \o frac))

\* The number written as int.frac times ten to the exponent.
NumberValue(neg, int, frac, exponent) ==
  IF exponent >= 0
  THEN ScaleUp(neg, int, frac, exponent, Min(exponent, Len(frac)))
  ELSE ScaleDown(neg, int, frac, 0 - exponent, Min(0 - exponent, Len(int)))

\* The digits of the exponent are s[d..e-1].
ExponentEnd(s, neg, int, frac, negExp, d, e) ==
  IF e = d THEN ParseFail
  ELSE Parsed(NumberValue(neg, int, frac,
                IF negExp THEN 0 - DigitsToInt(SubSeq(s, d, e - 1), 0)
                ELSE DigitsToInt(SubSeq(s, d, e - 1), 0)), e)

ExponentDigits(s, neg, int, frac, negExp, d) ==
  ExponentEnd(s, neg, int, frac, negExp, d, DigitsEnd(s, d))

\* ([eE] [+-]? [0-9]+)? from index c.
ParseExponent(s, neg, int, frac, c) ==
  IF c <= Len(s) /\ s[c] \in {101, 69}
  THEN IF c + 1 <= Len(s) /\ s[c + 1] \in {43, 45}
       THEN ExponentDigits(s, neg, int, frac, s[c + 1] = 45, c + 2)
       ELSE ExponentDigits(s, neg, int, frac, FALSE, c + 1)
  ELSE Parsed(NumberValue(neg, int, frac, 0), c)

\* The digits after the point are s[b+1..c-1].
FractionEnd(s, neg, a, b, c) ==
  IF c = b + 1 THEN ParseFail
  ELSE ParseExponent(s, neg, SubSeq(s, a, b - 1), SubSeq(s, b + 1, c - 1), c)

\* (0 | [1-9][0-9]*) (. [0-9]+)?, the integer digits being s[a..b-1].
ParseFraction(s, neg, a, b) ==
  IF b = a THEN ParseFail
  ELSE IF b - a > 1 /\ s[a] = Zero THEN ParseFail
  ELSE IF b <= Len(s) /\ s[b] = 46 THEN FractionEnd(s, neg, a, b, DigitsEnd(s, b + 1))
  ELSE ParseExponent(s, neg, SubSeq(s, a, b - 1), <<>>, b)

\* number: -? (0 | [1-9][0-9]*) (. [0-9]+)? ([eE] [+-]? [0-9]+)?
ParseNumber(s, i) ==
  IF s[i] = 45 THEN ParseFraction(s, TRUE, i + 1, DigitsEnd(s, i + 1))
  ELSE ParseFraction(s, FALSE, i, DigitsEnd(s, i))

\* The characters of a string, from the one after the opening quote.
RECURSIVE ParseStringBody(_, _, _)
ParseStringBody(s, i, acc) ==
  IF i > Len(s) THEN ParseFail
  ELSE IF s[i] = 34 THEN Parsed(JStr(acc), i + 1)
  ELSE IF s[i] < 32 THEN ParseFail
  ELSE IF s[i] # 92 THEN ParseStringBody(s, i + 1, Append(acc, s[i]))
  ELSE IF i + 1 > Len(s) THEN ParseFail
  ELSE LET e == s[i + 1]
       IN  IF e \in {34, 92, 47} THEN ParseStringBody(s, i + 2, Append(acc, e))
           ELSE IF e = 98 THEN ParseStringBody(s, i + 2, Append(acc, 8))
           ELSE IF e = 102 THEN ParseStringBody(s, i + 2, Append(acc, 12))
           ELSE IF e = 110 THEN ParseStringBody(s, i + 2, Append(acc, 10))
           ELSE IF e = 114 THEN ParseStringBody(s, i + 2, Append(acc, 13))
           ELSE IF e = 116 THEN ParseStringBody(s, i + 2, Append(acc, 9))
           ELSE IF e # 117 THEN ParseFail
           ELSE IF i + 5 > Len(s) THEN ParseFail
           ELSE IF \E k \in 2..5 : HexValue(s[i + k]) < 0 THEN ParseFail
           ELSE ParseStringBody(s, i + 6,
                  Append(acc, 4096 * HexValue(s[i + 2]) + 256 * HexValue(s[i + 3])
                                + 16 * HexValue(s[i + 4]) + HexValue(s[i + 5])))

IsLiteral(s, i, word) ==
  i + Len(word) - 1 <= Len(s) /\ SubSeq(s, i, i + Len(word) - 1) = word

RECURSIVE ParseValue(_, _)
RECURSIVE ParseMembers(_, _, _)
RECURSIVE ParseElements(_, _, _)

\* The members of an object from the first character of a key; a repeated
\* key keeps its place and takes the later value.
ParseMembers(s, i, members) ==
  IF i > Len(s) \/ s[i] # 34 THEN ParseFail
  ELSE LET key == ParseStringBody(s, i + 1, <<>>)
       IN  IF ~key.ok THEN ParseFail
           ELSE LET colon == SkipWs(s, key.pos)
                IN  IF colon > Len(s) \/ s[colon] # 58 THEN ParseFail
                    ELSE LET val == ParseValue(s, SkipWs(s, colon + 1))
                         IN  IF ~val.ok THEN ParseFail
                             ELSE LET n == SkipWs(s, val.pos)
                                      ms == MapSet(members, key.v.s, val.v)
                                  IN  IF n > Len(s) THEN ParseFail
                                      ELSE IF s[n] = 125 THEN Parsed(JObj(ms), n + 1)
                                      ELSE IF s[n] = 44
                                           THEN ParseMembers(s, SkipWs(s, n + 1), ms)
                                      ELSE ParseFail

\* The elements of an array from the first character of an element.
ParseElements(s, i, elems) ==
  LET val == ParseValue(s, i)
  IN  IF ~val.ok THEN ParseFail
      ELSE LET n == SkipWs(s, val.pos)
               es == Append(elems, val.v)
           IN  IF n > Len(s) THEN ParseFail
               ELSE IF s[n] = 93 THEN Parsed(JArr(es), n + 1)
               ELSE IF s[n] = 44 THEN ParseElements(s, SkipWs(s, n + 1), es)
               ELSE ParseFail

\* The value that starts at i (not white space).
ParseValue(s, i) ==
  IF i > Len(s) THEN ParseFail
  ELSE IF s[i] = 123
       THEN LET n == SkipWs(s, i + 1)
            IN  IF n <= Len(s) /\ s[n] = 125 THEN Parsed(JObj(<<>>), n + 1)
                ELSE ParseMembers(s, n, <<>>)
  ELSE IF s[i] = 91
       THEN LET n == SkipWs(s, i + 1)
            IN  IF n <= Len(s) /\ s[n] = 93 THEN Parsed(JArr(<<>>), n + 1)
                ELSE ParseElements(s, n, <<>>)
  ELSE IF s[i] = 34 THEN ParseStringBody(s, i + 1, <<>>)
  ELSE IF s[i] = 45 \/ IsDigit(s[i]) THEN ParseNumber(s, i)
  ELSE IF IsLiteral(s, i, StrNull) THEN Parsed(JNull, i + 4)
  ELSE IF IsLiteral(s, i, StrTrue) THEN Parsed(JBool(TRUE), i + 4)
  ELSE IF IsLiteral(s, i, StrFalse) THEN Parsed(JBool(FALSE), i + 5)
  ELSE ParseFail

\* JSON.parse(s): throws SyntaxError unless s is one value between white space.
JsonParse(s) ==
  LET r == ParseValue(s, SkipWs(s, 1))
  IN  IF ~r.ok THEN Failed
      ELSE IF SkipWs(s, r.pos) # Len(s) + 1 THEN Failed
      ELSE Ok(r.v)

\* ---------------------------------------------------------------- compress
ErrEmptyText == "Texto vazio nao pode ser comprimido"
ErrBuildTree == "Erro ao construir a arvore de Huffman"
ErrInvalidTree == "Arvore de Huffman invalida"
ErrDecompress == "Erro na descompressao: dados corrompidos ou invalidos"
\* The exceptions of the runtime: btoa and atob, JSON.parse, a property of null.
InvalidCharacterError == "InvalidCharacterError"
SyntaxError == "SyntaxError"
TypeError == "TypeError"

Throw(error) == [threw |-> TRUE, error |-> error]
Return(value) == [threw |-> FALSE, value |-> value]

\* Mutant of OriginalSize: the length is not multiplied.
OriginalSizeInSymbols(text) == Len(text)

\* const originalSize = text.length * 8
OriginalSize(text) == Len(text) * 8

\* The object `result` that is stringified into the payload.
PayloadObject(compressedBase64, serializedTree, originalSize, compressedSize) ==
  JObj(<< <<KeyCompressed, JStr(compressedBase64)>>,
          <<KeyTree, serializedTree>>,
          <<KeyOriginalSize, JInt(originalSize)>>,
          <<KeyCompressedSize, JInt(compressedSize)>>,
          <<KeyCompressionRatio, CompressionRatio(originalSize, compressedSize)>>,
          <<KeyBitsLength, JInt(compressedSize)>> >>)

\* compress from the line after buildHuffmanTree returned `root`.
CompressWithRoot(text, root) ==
  IF root = Null THEN Throw(ErrBuildTree)
  ELSE LET codes == GenerateCodes(root)
           compressedBits == EncodeText(text, codes)
           originalSize == OriginalSize(text)
           compressedSize == Len(compressedBits)
           compressedBase64 == BitsToBase64(compressedBits)
           serializedTree == SerializeTree(root)
           payload == IF compressedBase64.ok
                      THEN Btoa(JsonStringify(PayloadObject(compressedBase64.v,
                                  serializedTree, originalSize, compressedSize)))
                      ELSE Failed
       IN  IF ~payload.ok THEN Throw(InvalidCharacterError)
           ELSE Return([compressed |-> payload.v,
                        tree |-> serializedTree,
                        originalSize |-> originalSize,
                        compressedSize |-> compressedSize,
                        compressionRatio |-> CompressionRatio(originalSize, compressedSize)])

\* The while loop of buildHuffmanTree run to its end.
RECURSIVE MergeAll(_)
MergeAll(heap) == IF Len(heap) > 1 THEN MergeAll(MergeStep(heap)) ELSE heap

BuildHuffmanTree(frequencies) == HeapRoot(MergeAll(InitialHeap(frequencies)))

\* -------------------------------------------------------------- decompress
Base64ToBits(base64, originalLength) ==
  LET decoded == Atob(JsToString(base64))
  IN  IF ~decoded.ok THEN Failed
      ELSE LET bits == UnpackBits(decoded.v)
           IN  Ok(SubSeq(bits, 1, SubstringEnd(Len(bits), originalLength)))

\* The for loop over the bits: <<text decoded, node the walk stands on>>;
\* stepping to a missing child throws at its `.char`.
RECURSIVE DecodeWalk(_, _, _, _)
DecodeWalk(root, currentNode, bits, result) ==
  IF bits = <<>> THEN Return(<<result, currentNode>>)
  ELSE LET next == IF Head(bits) = Zero THEN currentNode.left ELSE currentNode.right
       IN  IF next = Null THEN Throw(TypeError)
           ELSE IF next.char # NullChar
                THEN DecodeWalk(root, root, Tail(bits), Append(result, next.char))
                ELSE DecodeWalk(root, next, Tail(bits), result)

\* The body of the try block.
DecompressBody(compressedData, tree) ==
  LET decoded == Atob(compressedData)
      parsed == JsonParse(decoded.v)
      data == parsed.v
      root == DeserializeTree(tree)
      bits == Base64ToBits(GetProp(data, KeyCompressed), GetProp(data, KeyBitsLength))
      walk == DecodeWalk(root, root, bits.v, <<>>)
  IN  IF ~decoded.ok THEN Throw(InvalidCharacterError)
      ELSE IF ~parsed.ok THEN Throw(SyntaxError)
      ELSE IF root = Null THEN Throw(ErrInvalidTree)
      ELSE IF data = JNull THEN Throw(TypeError)
      ELSE IF ~bits.ok THEN Throw(InvalidCharacterError)
      ELSE IF IsSingleLeaf(root) THEN Return(Repeat(<<root.char>>, Len(bits.v)))
      ELSE IF walk.threw THEN walk
      ELSE Return(walk.value[1])

\* catch (error) { throw new Error("Erro na descompressão: ...") }
CatchAll(outcome) == IF outcome.threw THEN Throw(ErrDecompress) ELSE outcome

Decompress(compressedData, tree) == CatchAll(DecompressBody(compressedData, tree))

\* ------------------------------------------------------------------- state
VARIABLES
  pc,        \* "idle", "building" (in the loop of buildHuffmanTree),
             \* "compressed", "failed" (compress threw), "decompressed"
  text,      \* the argument of compress
  heap,      \* the candidate list of buildHuffmanTree
  merges,    \* iterations of its while loop so far
  result,    \* what compress returned or threw
  given,     \* the arguments of decompress
  output,    \* what decompress returned or threw
  walk       \* the locals of decompress while its for loop runs

vars == <<pc, text, heap, merges, result, given, output, walk>>

None == [none |-> TRUE]

Init ==
  /\ pc = "idle"
  /\ text = <<>>
  /\ heap = <<>>
  /\ merges = 0
  /\ result = None
  /\ given = None
  /\ output = None
  /\ walk = None

\* compress(t) up to the first test of the while loop.
StartCompress ==
  /\ pc = "idle"
  /\ \E t \in Texts :
       /\ text' = t
       /\ IF t = <<>>
          THEN /\ pc' = "failed"
               /\ result' = Throw(ErrEmptyText)
               /\ heap' = heap
          ELSE /\ pc' = "building"
               /\ result' = result
               /\ heap' = InitialHeap(Frequencies(t))
  /\ UNCHANGED <<merges, given, output, walk>>

\* One iteration of the while loop.
MergeIteration ==
  /\ pc = "building"
  /\ Len(heap) > 1
  /\ heap' = MergeStep(heap)
  /\ merges' = merges + 1
  /\ UNCHANGED <<pc, text, result, given, output, walk>>

\* The loop has ended: the rest of compress.
FinishCompress ==
  /\ pc = "building"
  /\ ~(Len(heap) > 1)
  /\ result' = CompressWithRoot(text, HeapRoot(heap))
  /\ pc' = IF result'.threw THEN "failed" ELSE "compressed"
  /\ UNCHANGED <<text, heap, merges, given, output, walk>>

CallDecompress(compressedData, tree) ==
  /\ given' = [compressedData |-> compressedData, tree |-> tree]
  /\ output' = Decompress(compressedData, tree)
  /\ pc' = "decompressed"
  /\ UNCHANGED <<text, heap, merges, result, walk>>

\* handleDecompress: the payload and the tree compress returned.
DecompressResult ==
  /\ pc = "compressed"
  /\ CallDecompress(result.value.compressed, result.value.tree)

\* The payload with no tree: null, or undefined as from a record read back
\* without its tree field.
DecompressWithoutTree ==
  /\ pc = "compressed"
  /\ \E tree \in {JNull, Undefined} : CallDecompress(result.value.compressed, tree)

Next ==
  \/ StartCompress
  \/ MergeIteration
  \/ FinishCompress
  \/ DecompressResult
  \/ DecompressWithoutTree

Spec == Init /\ [][Next]_vars

\* ------------------------------------------------------- damaged payloads
\* The 6-bit value v with its bit k inverted.
FlipSextetBit(v, k) == IF (v \div (2 ^ k)) % 2 = 1 THEN v - 2 ^ k ELSE v + 2 ^ k

\* Characters put in place of the character c of a payload: c with one of
\* its six bits inverted, or "!" (33, outside the base64 alphabet); for a
\* padding "=", "A" or "!".
ReplacementChars(c) ==
  IF B64Index(c) >= 0
  THEN {B64Char(FlipSextetBit(B64Index(c), k)) : k \in 0..5} \cup {33}
  ELSE {B64Char(0), 33}

\* decompress of the returned payload with one character changed, and the
\* returned tree.
DecompressCorrupted ==
  /\ pc = "compressed"
  /\ Len(text) <= MaxCorruptLen
  /\ \E i \in DOMAIN result.value.compressed :
       \E c \in ReplacementChars(result.value.compressed[i]) :
         CallDecompress([result.value.compressed EXCEPT ![i] = c], result.value.tree)

\* decompress of the returned payload cut short, and the returned tree.
DecompressTruncated ==
  /\ pc = "compressed"
  /\ Len(text) <= MaxCorruptLen
  /\ \E k \in 1..MaxCut :
       CallDecompress(SubSeq(result.value.compressed, 1,
                             Len(result.value.compressed) - k),
                      result.value.tree)

NextCorrupt ==
  \/ StartCompress
  \/ MergeIteration
  \/ FinishCompress
  \/ DecompressCorrupted
  \/ DecompressTruncated

SpecCorrupt == Init /\ [][NextCorrupt]_vars

\* -------------------------------------------- bitsToBase64, base64ToBits alone
\* Every bit string up to MaxBits, and each of them written three times
\* (up to 3 * MaxBits bits: one to four bytes, every base64 padding).
ShortBitStrings == UNION {[1..n -> {Zero, One}] : n \in 0..MaxBits}
BitStrings == ShortBitStrings \cup {b \o b \o b : b \in ShortBitStrings}

InitBits ==
  /\ pc = "bits"
  /\ given \in {[bits |-> b] : b \in BitStrings}
  /\ text = <<>>
  /\ heap = <<>>
  /\ merges = 0
  /\ result = None
  /\ output = None
  /\ walk = None

\* bitsToBase64(bits)
CallBitsToBase64 ==
  /\ pc = "bits"
  /\ result' = IF BitsToBase64(given.bits).ok
               THEN Return(BitsToBase64(given.bits).v)
               ELSE Throw(InvalidCharacterError)
  /\ pc' = "packed"
  /\ UNCHANGED <<text, heap, merges, given, output, walk>>

\* base64ToBits(base64, originalLength) of the packed string and the length
\* of the bit string it was made of.
CallBase64ToBits ==
  /\ pc = "packed"
  /\ ~result.threw
  /\ output' = IF Base64ToBits(JStr(result.value), JInt(Len(given.bits))).ok
               THEN Return(Base64ToBits(JStr(result.value), JInt(Len(given.bits))).v)
               ELSE Throw(InvalidCharacterError)
  /\ pc' = "unpacked"
  /\ UNCHANGED <<text, heap, merges, result, given, walk>>

NextBits ==
  \/ CallBitsToBase64
  \/ CallBase64ToBits

SpecBits == InitBits /\ [][NextBits]_vars

\* ------------------------------------------- decompress, one bit at a time
\* decompress has reached its for loop with these locals.
Loop(locals) == [threw |-> FALSE, locals |-> locals]

\* The try block up to the first test of the for loop: what it threw or
\* returned before the loop, or the locals the loop starts with.
BeforeLoop(compressedData, tree) ==
  LET decoded == Atob(compressedData)
      parsed == JsonParse(decoded.v)
      data == parsed.v
      root == DeserializeTree(tree)
      bits == Base64ToBits(GetProp(data, KeyCompressed), GetProp(data, KeyBitsLength))
  IN  IF ~decoded.ok THEN Throw(InvalidCharacterError)
      ELSE IF ~parsed.ok THEN Throw(SyntaxError)
      ELSE IF root = Null THEN Throw(ErrInvalidTree)
      ELSE IF data = JNull THEN Throw(TypeError)
      ELSE IF ~bits.ok THEN Throw(InvalidCharacterError)
      ELSE IF IsSingleLeaf(root) THEN Return(Repeat(<<root.char>>, Len(bits.v)))
      ELSE Loop([root |-> root, currentNode |-> root, bits |-> bits.v,
                 i |-> 0, result |-> <<>>])

\* Mutant of WalkBit: the walk goes right on "0" and left on any other bit.
WalkBitSwapped(currentNode, bit) ==
  IF bit = Zero THEN currentNode.right ELSE currentNode.left

\* if (bit === "0") currentNode = currentNode.left! else currentNode = currentNode.right!
WalkBit(currentNode, bit) ==
  IF bit = Zero THEN currentNode.left ELSE currentNode.right

\* decompress of what compress returned, up to the first test of the loop.
BeginDecompress ==
  /\ pc = "compressed"
  /\ given' = [compressedData |-> result.value.compressed, tree |-> result.value.tree]
  /\ IF "locals" \in DOMAIN BeforeLoop(result.value.compressed, result.value.tree)
     THEN /\ pc' = "walking"
          /\ walk' = BeforeLoop(result.value.compressed, result.value.tree).locals
          /\ output' = output
     ELSE /\ pc' = "decompressed"
          /\ walk' = walk
          /\ output' = CatchAll(BeforeLoop(result.value.compressed, result.value.tree))
  /\ UNCHANGED <<text, heap, merges, result>>

\* One iteration of for (const bit of bits); reading .char of a missing
\* child throws, and the catch ends decompress.
WalkStep ==
  /\ pc = "walking"
  /\ walk.i < Len(walk.bits)
  /\ IF WalkBit(walk.currentNode, walk.bits[walk.i + 1]) = Null
     THEN /\ walk' = [walk EXCEPT !.i = @ + 1, !.currentNode = Null]
          /\ output' = CatchAll(Throw(TypeError))
          /\ pc' = "decompressed"
     ELSE /\ walk' =
               IF WalkBit(walk.currentNode, walk.bits[walk.i + 1]).char # NullChar
               THEN [walk EXCEPT
                       !.i = @ + 1,
                       !.result = Append(@, WalkBit(walk.currentNode,
                                                    walk.bits[walk.i + 1]).char),
                       !.currentNode = walk.root]
               ELSE [walk EXCEPT
                       !.i = @ + 1,
                       !.currentNode = WalkBit(walk.currentNode, walk.bits[walk.i + 1])]
          /\ output' = output
          /\ pc' = pc
  /\ UNCHANGED <<text, heap, merges, result, given>>

\* The bits are used up: return result.
EndWalk ==
  /\ pc = "walking"
  /\ walk.i = Len(walk.bits)
  /\ output' = Return(walk.result)
  /\ pc' = "decompressed"
  /\ UNCHANGED <<text, heap, merges, result, given, walk>>

NextWalk ==
  \/ StartCompress
  \/ MergeIteration
  \/ FinishCompress
  \/ BeginDecompress
  \/ WalkStep
  \/ EndWalk

SpecWalk == Init /\ [][NextWalk]_vars

\* ------------------------------------------------------ observed quantities
Range(f) == {f[i] : i \in DOMAIN f}

\* compress has ended, by a return or a throw.
CompressEnded == pc \in {"compressed", "failed", "decompressed"}

\* compress returned (and decompress may have been called since).
CompressReturned == pc \in {"compressed", "decompressed"}

\* decompress was called with exactly what compress returned.
DecompressedOwnResult ==
  /\ pc = "decompressed"
  /\ given = [compressedData |-> result.value.compressed, tree |-> result.value.tree]

\* The tree and the code table of the text, once the loop has ended.
BuiltRoot == HeapRoot(heap)
BuiltCodes == GenerateCodes(BuiltRoot)

IsPrefix(a, b) == Len(a) <= Len(b) /\ SubSeq(b, 1, Len(a)) = a

Occurrences(t, c) == Cardinality({i \in DOMAIN t : t[i] = c})

C2_OnlyEmptyFails ==
  CompressEnded =>
    IF text = <<>> THEN result = Throw(ErrEmptyText) ELSE ~result.threw

\* C4 (invalid tree), the claim as stated: decompress of a well-formed
\* payload with a null or absent tree throws the invalid-tree error, which
\* is not the error thrown for a payload that cannot be parsed.
C4_InvalidTreeError ==
  (pc = "decompressed" /\ given.compressedData = result.value.compressed
     /\ given.tree \in {JNull, Undefined})
    => (output = Throw(ErrInvalidTree) /\ output # Decompress(<<123>>, result.value.tree))

\* C5 (prefix-free codes): for a text of at least two distinct symbols the
\* code table has exactly one entry for every distinct symbol of the text and
\* no other entry, every code is non-empty, and no code is a prefix of, or
\* equal to, the code of another symbol.
C5_PrefixFree ==
  (CompressEnded /\ Cardinality(Range(text)) >= 2) =>
    /\ \A c \in Range(text) :
         Cardinality({i \in DOMAIN BuiltCodes : BuiltCodes[i][1] = c}) = 1
    /\ \A i \in DOMAIN BuiltCodes :
         /\ BuiltCodes[i][1] \in Range(text)
         /\ BuiltCodes[i][2] # <<>>
         /\ \A j \in DOMAIN BuiltCodes :
              i # j => ~IsPrefix(BuiltCodes[i][2], BuiltCodes[j][2])

\* C5 witness: a code table for four distinct symbols has been generated.
C5_Witness ==
  /\ CompressEnded
  /\ Cardinality(Range(text)) = 4
  /\ Len(BuiltCodes) = 4

RECURSIVE SumSeq(_)
SumSeq(ns) == IF ns = <<>> THEN 0 ELSE Head(ns) + SumSeq(Tail(ns))

\* Sum over the code table of code length times occurrences in the text.
EncodedLength(t, codes) ==
  SumSeq([i \in DOMAIN codes |-> Len(codes[i][2]) * Occurrences(t, codes[i][1])])

Least(ns) == CHOOSE n \in ns : \A m \in ns : n <= m

\* The least total encoded length of any binary prefix-code tree whose
\* leaves are the symbols `symbols` of t: a tree of one leaf costs nothing
\* more; a root over two subtrees adds one bit to every occurrence below it.
RECURSIVE LeastEncodedLength(_, _)
LeastEncodedLength(t, symbols) ==
  IF Cardinality(symbols) = 1 THEN 0
  ELSE Cardinality({i \in DOMAIN t : t[i] \in symbols})
         + Least({LeastEncodedLength(t, part) + LeastEncodedLength(t, symbols \ part) :
                    part \in (SUBSET symbols) \ {{}, symbols}})

\* C6 (optimality): for a text of at least two distinct symbols the built
\* tree's total encoded length is the least of any binary prefix-code tree on
\* the same symbols, and the compressedSize compress returns is that least.
C6_Optimal ==
  (CompressEnded /\ Cardinality(Range(text)) >= 2) =>
    /\ EncodedLength(text, BuiltCodes) = LeastEncodedLength(text, Range(text))
    /\ CompressReturned =>
         result.value.compressedSize = LeastEncodedLength(text, Range(text))

\* C6 witness: compress returned for a text whose symbols have three
\* different counts (the worked example: 5, 2, 2, 1, 1).
C6_Witness ==
  /\ CompressReturned
  /\ text = Abracadabra
  /\ result.value.compressedSize = LeastEncodedLength(text, Range(text))

PayloadData == JsonParse(Atob(result.value.compressed).v).v

\* C8 (size metrics): when compress returns, originalSize is 8 times the
\* number of symbols of the text (88 for "abracadabra"), and compressedSize
\* is the sum over the distinct symbols of code length times occurrences,
\* the length of the unpadded bit string and the bitsLength in the payload.
C8_SizeMetrics ==
  CompressReturned =>
    /\ result.value.originalSize = 8 * Len(text)
    /\ text = Abracadabra => result.value.originalSize = 88
    /\ result.value.compressedSize = EncodedLength(text, BuiltCodes)
    /\ result.value.compressedSize = Len(EncodeText(text, BuiltCodes))
    /\ GetProp(PayloadData, KeyBitsLength) = JInt(result.value.compressedSize)

\* C8 witness: compress returned for "abracadabra" with 88 and 23 bits.
C8_Witness ==
  /\ CompressReturned
  /\ text = Abracadabra
  /\ result.value.originalSize = 88
  /\ result.value.compressedSize = 23

Sorted(h) == \A i, j \in DOMAIN h : i < j => h[i].frequency <= h[j].frequency

\* The sequence h without its element at index k.
Without(h, k) == SubSeq(h, 1, k - 1) \o SubSeq(h, k + 1, Len(h))

\* A step that is one iteration of the while loop.
IsMergeIteration == pc = "building" /\ merges' = merges + 1

\* The while loop has been left.
LoopEnded == CompressEnded /\ text # <<>>

\* What one iteration does to the candidate list, as C9 states it.
GreedyStep ==
  IsMergeIteration =>
    LET merged == MergeNodes(heap[1], heap[2])
    IN  /\ \A i \in 3..Len(heap) :
             /\ heap[1].frequency <= heap[i].frequency
             /\ heap[2].frequency <= heap[i].frequency
        /\ heap[1].frequency <= heap[2].frequency
        /\ merged.frequency = heap[1].frequency + heap[2].frequency
        /\ merged.left = heap[1] /\ merged.right = heap[2]
        /\ \E k \in DOMAIN heap' :
             heap'[k] = merged /\ Without(heap', k) = SubSeq(heap, 3, Len(heap))
        /\ Sorted(heap')

\* C9 (greedy merge): at every test of the loop the candidate list is sorted
\* by ascending weight; an iteration removes the two first (lowest) nodes,
\* merges them into a node of their summed weight with the first removed as
\* left child and the second as right child, and reinserts it so that the
\* list is sorted again; the loop ends after exactly (distinct symbols - 1)
\* iterations with one node, whose weight is the length of the text.
C9_GreedyMerge ==
  /\ [](pc = "building" => Sorted(heap))
  /\ [][GreedyStep]_vars
  /\ [](LoopEnded =>
          /\ merges = Cardinality(Range(text)) - 1
          /\ Len(heap) = 1
          /\ heap[1].frequency = Len(text))

\* C9 witness: the loop has ended after three iterations.
C9_Witness == LoopEnded /\ merges = 3 /\ Len(text) = 4

\* The index of the first occurrence of c in t.
FirstIndex(t, c) == Least({i \in DOMAIN t : t[i] = c})

\* The leaves reach the loop sorted, equal weights in order of first
\* occurrence in the text.
LeavesInOrder ==
  (pc = "idle" /\ pc' = "building") =>
    \A i, j \in DOMAIN heap' :
      i < j =>
        \/ heap'[i].frequency < heap'[j].frequency
        \/ /\ heap'[i].frequency = heap'[j].frequency
           /\ FirstIndex(text', heap'[i].char) < FirstIndex(text', heap'[j].char)

\* The nodes already in the list keep their order across an iteration.
OthersKeepOrder ==
  IsMergeIteration =>
    \E k \in DOMAIN heap' :
      heap'[k] = MergeNodes(heap[1], heap[2])
        /\ Without(heap', k) = SubSeq(heap, 3, Len(heap))

\* C10 (tie-break), the claim as stated: candidates of equal weight stay in
\* order of entry; the initial leaves in order of first occurrence, and a
\* newly merged node after every node of its weight already in the list.
C10_StableInsertion ==
  [][/\ LeavesInOrder
     /\ OthersKeepOrder
     /\ IsMergeIteration =>
          \A i, j \in DOMAIN heap' :
            (heap'[i] = MergeNodes(heap[1], heap[2]) /\ j # i
               /\ heap'[j].frequency = heap'[i].frequency) => j < i]_vars

\* C10 as amended: the initial leaves of equal weight are in order of first
\* occurrence and the nodes in the list keep their order, but a newly merged
\* node is put before every node of its weight already in the list.
C10_MergedBeforeEquals ==
  [][/\ LeavesInOrder
     /\ OthersKeepOrder
     /\ IsMergeIteration =>
          \A i, j \in DOMAIN heap' :
            (heap'[i] = MergeNodes(heap[1], heap[2]) /\ j # i
               /\ heap'[j].frequency = heap'[i].frequency) => i < j]_vars

\* C10 witness: a merged node of weight 2 was reinserted in a list that
\* held a leaf of weight 2.
C10_Witness ==
  /\ pc = "building"
  /\ merges = 1
  /\ Len(heap) = 2
  /\ heap[1].frequency = 2
  /\ heap[2].frequency = 2

\* decompress was called with a payload that is not the one returned, and
\* the returned tree.
DamagedPayloadGiven ==
  /\ pc = "decompressed"
  /\ given.compressedData # result.value.compressed
  /\ given.tree = result.value.tree

\* C3 (corruption rejection), the claim as stated: decompress of a returned
\* payload with one character changed, or cut short, throws the
\* corrupt-payload error and returns no text.
C3_CorruptionRejected == DamagedPayloadGiven => output = Throw(ErrDecompress)

\* C3, the part "never a text different from T": a damaged payload is never
\* decompressed to another text.
C3_NeverWrongText == DamagedPayloadGiven => (output.threw \/ output = Return(text))

\* The bytes atob makes of the packed string.
PackedBytes == Atob(result.value).v

\* C11 (bit pack/unpack round trip): for every bit string b, the empty one
\* included, bitsToBase64(b) is a base64 string of ceil(length(b) / 8) bytes
\* whose bits are b followed by 0 to 7 zero bits up to the next multiple of
\* 8 (none when the length is a multiple of 8), and base64ToBits of it with
\* length(b) returns exactly b: its first length(b) bits and no padding bit.
C11_PackUnpack ==
  /\ pc \in {"packed", "unpacked"} =>
       /\ ~result.threw
       /\ Atob(result.value).ok
       /\ Len(PackedBytes) = (Len(given.bits) + 7) \div 8
       /\ Len(given.bits) % 8 = 0 => UnpackBits(PackedBytes) = given.bits
       /\ 8 * Len(PackedBytes) - Len(given.bits) \in 0..7
       /\ \A i \in 1..(8 * Len(PackedBytes)) :
            UnpackBits(PackedBytes)[i] =
              IF i <= Len(given.bits) THEN given.bits[i] ELSE Zero
  /\ pc = "unpacked" =>
       /\ output = Return(given.bits)
       /\ Len(output.value) = Len(given.bits)

\* C11 witness: a string of 27 bits that ends in a 1 (four bytes, five
\* padding bits) was packed and unpacked.
C11_Witness ==
  /\ pc = "unpacked"
  /\ Len(given.bits) = 3 * MaxBits
  /\ given.bits[Len(given.bits)] = One
  /\ output = Return(given.bits)

\* C11 witness of the empty bit string.
C11_WitnessEmpty == pc = "unpacked" /\ given.bits = <<>> /\ output = Return(<<>>)

\* A node with no child.
IsLeaf(node) == node.left = Null /\ node.right = Null

\* A step that brings decompress to its loop, and a step that is one
\* iteration of the loop.
WalkBegins == pc = "compressed" /\ pc' = "walking"
WalkSteps == pc = "walking" /\ walk'.i = walk.i + 1

\* The child the claim says the walk moves to on the next bit.
ClaimedChild ==
  IF walk.bits[walk.i + 1] = Zero THEN walk.currentNode.left
  ELSE walk.currentNode.right

\* What the walk does from its start and in one iteration, as C12 states it.
WalkAsClaimed ==
  /\ WalkBegins =>
       /\ walk'.root = BuiltRoot
       /\ walk'.bits = EncodeText(text, BuiltCodes)
       /\ walk'.currentNode = walk'.root
       /\ walk'.i = 0
       /\ walk'.result = <<>>
  /\ WalkSteps =>
       /\ walk.bits[walk.i + 1] \in {Zero, One}
       /\ ClaimedChild # Null
       /\ pc' = "walking"
       /\ walk'.root = walk.root
       /\ walk'.bits = walk.bits
       /\ IF IsLeaf(ClaimedChild)
          THEN /\ ClaimedChild.char # NullChar
               /\ walk'.result = Append(walk.result, ClaimedChild.char)
               /\ walk'.currentNode = walk.root
          ELSE /\ walk'.result = walk.result
               /\ walk'.currentNode = ClaimedChild

\* C12 (decode walk, tree of several symbols): for the payload and tree
\* compress returned, the walk starts at the root of the built tree with the
\* encoded bits, moves left on "0" and right on "1", never steps to a
\* missing child, emits the symbol and goes back to the root exactly when it
\* reaches a leaf, and when the last bit is used up it stands on the root
\* and has emitted as many symbols as the text has (the text itself).
C12_DecodeWalk ==
  /\ [][WalkAsClaimed]_vars
  /\ []((pc = "walking" /\ walk.i = Len(walk.bits)) =>
          /\ walk.currentNode = walk.root
          /\ Len(walk.result) = Len(text))
  /\ []((pc = "decompressed" /\ walk # None) =>
          /\ output = Return(walk.result)
          /\ Len(output.value) = Len(text)
          /\ output.value = text)

\* C12 witness: the walk over the 23 bits of "abracadabra" has ended on the
\* root with 11 symbols emitted.
C12_Witness ==
  /\ pc = "decompressed"
  /\ walk # None
  /\ text = Abracadabra
  /\ walk.i = 23
  /\ walk.currentNode = walk.root
  /\ Len(walk.result) = 11

====
